---- MODULE Spec2Model ----
(***************************************************************************)
(* USienaRL: the Experiment control loop (usienarl/experiment.py) with the *)
(* agent operations it drives (benchmarks/src/                             *)
(* tabular_expected_sarsa_agent.py).                                       *)
(*                                                                         *)
(* Experiment.setup and Experiment.conduct are modelled statement by       *)
(* statement.  conduct is one long call, so it is cut at its loop heads    *)
(* and at the calls of its hooks: pc names the place the call has reached. *)
(* The hooks _pre_train, _train, _inference, _validate and _test are empty *)
(* in the base class and implemented by subclasses that are not part of    *)
(* the sources at hand; each is modelled by what its call site in conduct  *)
(* consumes.  Scores are integers, and the final score is kept as an exact *)
(* fraction so that no rounding enters the comparison of two formulas.     *)
(***************************************************************************)
EXTENDS Integers, Sequences, FiniteSets, TLC

\* ---------------------------------------------------------------- bounds
MaxInterval == 2
MaxTrainingEpisodes == 2
MaxTests == 2
MaxEpisodesPerTest == 1
MaxPreTrainEpisodes == 1
MaxEpisodeSteps == 2
MaxScore == 1
MaxSchedule == 3
MaxDecay == 2
MaxActions == 2
MaxShape == 2
MaxBuffer == 2
MaxRunSteps == 2
MaxBatchSize == 2

\* Average scores an inference or training interval can report.
Scores == 0..MaxScore
\* Validation and test thresholds given to the constructor.
Thresholds == {1}
\* Steps one episode can take before the environment reports it done: the
\* shortest episode and the longest.
EpisodeSteps == {1, MaxEpisodeSteps}
\* Rewards an environment step can give; the agent stores a reward as it is.
Rewards == {1}
\* Batch sizes an agent can be constructed with.
BatchSizes == 1..MaxBatchSize
\* Absolute errors a model update can report for a sample.
SampleErrors == {0, 1}
\* update calls followed on one policy after its initialize.
MaxPolicyUpdates == MaxSchedule + 1

VARIABLES
    pc,                              \* where the experiment is
    validation_success_threshold,    \* Experiment.__init__
    test_success_threshold,          \* Experiment.__init__
    pre_train_episodes,              \* Experiment.__init__
    require_pre_train,               \* Agent.require_pre_train
    warmup_episodes,                 \* Agent.warmup_episodes, from the model
    setup_calls,                     \* calls made by the last setup, in order
    setup_result,                    \* what the last setup returned
    training_episodes_per_interval,  \* conduct parameter
    max_training_episodes,           \* conduct parameter
    episodes_per_test,               \* conduct parameter
    number_of_tests,                 \* conduct parameter
    training_episodes_counter,       \* conduct local
    training_steps_counter,          \* conduct local
    validation_score,                \* conduct local
    validated,                       \* the loop was left by break
    scores,                          \* conduct local
    final_score,                     \* conduct local, a fraction
    best_score,                      \* conduct local
    experiment_successful,           \* outcome logged after _test
    error,                           \* exception raised out of conduct
    return_value,                    \* what conduct returned, <<>> before
    conduct_calls,                   \* what conduct called to initialize
    warmup_episodes_run,             \* episodes played by _pre_train
    interval_episodes_run,           \* episodes played by the current _train
    interval_steps,                  \* steps taken by the current _train
    intervals_run,                   \* completed _train calls
    validations_run,                 \* completed validation _inference calls
    test_trials,                     \* test _inference calls: episodes, score
    buffer_stores,                   \* model.buffer.store calls
    model_updates,                   \* model.update calls
    policy_updates,                  \* exploration_policy.update calls
    exploration_policy,              \* the agent's ExplorationPolicy object
    operation,                       \* the last call made on agent or experiment
    calls,                           \* what that call called, in order
    selected_action,                 \* the action the last act_* returned
    observation_space,               \* the agent's observation space
    buffer,                          \* model.buffer: the stored transitions
    driver,                          \* the benchmark script that was run
    experiments,                     \* the experiments it defined, in order
    running,                         \* the experiment run_experiment is at
    run_steps,                       \* steps of the running experiment
    environment_steps,               \* step calls, per environment object
    model_stores,                    \* buffer.store calls, per model object
    call_results,                    \* what the calls of an act_* returned
    model_generate_result,           \* what model.generate returned
    agent_generate_result,           \* what Agent._generate returned
    generate_arguments,              \* the action space _generate was given
    batch_size,                      \* the agent's _batch_size
    batch,                           \* places of the last batch drawn
    current_loss,                    \* the agent's _current_loss, <<>> None
    current_absolute_errors,         \* _current_absolute_errors, <<>> None
    buffer_update_argument,          \* what buffer.update was last given
    agent_error,                     \* exception raised out of the agent
    step_arguments,                  \* the step the last storing completion got
    step_position,                   \* the call an experiment step is at, 0 outside
    step_render,                     \* the render flag of that step
    environment_action,              \* the action Environment.step was given
    environment_result,              \* what Environment.step returned
    step_result,                     \* what the experiment step returned
    steps_issued,                    \* Environment.step calls so far
    steps_returned                   \* experiment steps that have returned

vars == <<pc, validation_success_threshold, test_success_threshold,
          pre_train_episodes, require_pre_train, warmup_episodes,
          setup_calls, setup_result,
          training_episodes_per_interval, max_training_episodes,
          episodes_per_test, number_of_tests, training_episodes_counter,
          training_steps_counter, validation_score, validated, scores,
          final_score, best_score, experiment_successful, error,
          return_value, conduct_calls, warmup_episodes_run,
          interval_episodes_run,
          interval_steps,
          intervals_run, validations_run, test_trials, buffer_stores,
          model_updates, policy_updates, exploration_policy, operation,
          calls, selected_action, observation_space, buffer, driver,
          experiments, running, run_steps, environment_steps, model_stores,
          call_results, model_generate_result, agent_generate_result,
          generate_arguments,
          batch_size, batch, current_loss, current_absolute_errors,
          buffer_update_argument, agent_error, step_arguments,
          step_position, step_render, environment_action, environment_result,
          step_result, steps_issued, steps_returned>>

\* What the agent keeps of its generation, of its training steps and of its
\* last update.
generationVars == <<model_generate_result, agent_generate_result,
                    generate_arguments>>
batchVars == <<batch_size, batch, buffer_update_argument, agent_error>>
trainingVars == <<batchVars, step_arguments>>
lossVars == <<current_loss, current_absolute_errors>>
\* An experiment step in progress, and the steps counted so far.
stepVars == <<step_position, step_render, environment_action,
              environment_result, step_result, steps_issued, steps_returned>>

configVars == <<validation_success_threshold, test_success_threshold,
                pre_train_episodes, require_pre_train, warmup_episodes,
                operation, calls, selected_action,
                observation_space, buffer, driver, experiments, running,
                run_steps, environment_steps, model_stores, call_results,
                generationVars, trainingVars, stepVars>>
\* What initialize resets and training changes.
learnedVars == <<exploration_policy, lossVars>>
setupVars == <<setup_calls, setup_result>>
paramVars == <<training_episodes_per_interval, max_training_episodes,
               episodes_per_test, number_of_tests, conduct_calls>>
loopVars == <<training_episodes_counter, training_steps_counter,
              validation_score, validated, intervals_run, validations_run>>
trainVars == <<interval_episodes_run, interval_steps>>
testVars == <<scores, final_score, best_score, experiment_successful,
              error, return_value, test_trials>>
agentVars == <<buffer_stores, model_updates, policy_updates>>


NoScore == [num |-> 0, den |-> 1]

RECURSIVE Sum(_)
Sum(s) == IF s = <<>> THEN 0 ELSE Head(s) + Sum(Tail(s))

\* ----------------------------------------------------- Experiment.setup
\* A setup that goes on to the agent whatever the environment returned.
setup_calls_made_both(environment_ok, agent_ok) ==
    << <<"reset_default_graph", TRUE>>,
       <<"environment.setup", environment_ok>>,
       <<"agent.setup", agent_ok>> >>

\* The calls setup makes, in order, each with what it returned.
setup_calls_made(environment_ok, agent_ok) ==
    IF ~environment_ok
    THEN << <<"reset_default_graph", TRUE>>,
            <<"environment.setup", FALSE>> >>
    ELSE << <<"reset_default_graph", TRUE>>,
            <<"environment.setup", TRUE>>,
            <<"agent.setup", agent_ok>> >>

\* What setup returns.  The statement that returned the outcome of the
\* model generation is commented out (lines 82-86), so a setup whose two
\* collaborators both succeed falls off the end of the function: None.
setup_returns(environment_ok, agent_ok) ==
    IF ~environment_ok THEN "False"
    ELSE IF ~agent_ok THEN "False"
    ELSE "None"

setup(environment_ok, agent_ok) ==
    /\ pc = "idle"
    /\ setup_calls' = setup_calls_made(environment_ok, agent_ok)
    /\ setup_result' = setup_returns(environment_ok, agent_ok)
    /\ pc' = "setup_returned"
    /\ UNCHANGED <<configVars, paramVars, loopVars, trainVars, testVars,
                   agentVars, warmup_episodes_run,
                   learnedVars>>

\* The caller has taken what setup returned.
setup_end ==
    /\ pc = "setup_returned"
    /\ pc' = "idle"
    /\ setup_calls' = <<>>
    /\ setup_result' = "unset"
    /\ UNCHANGED <<configVars, paramVars, loopVars, trainVars, testVars,
                   agentVars, warmup_episodes_run,
                   learnedVars>>

\* ------------------------------------------------------- the agent
\* complete_step_warmup: one buffer store, nothing else.
complete_step_warmup(agent) ==
    [agent EXCEPT !.buffer_stores = @ + 1]

\* complete_step_train with the model update left out.
complete_step_train_store_only(agent) ==
    [agent EXCEPT !.buffer_stores = @ + 1]

\* complete_step_train: one buffer store, then one model update on a batch
\* drawn from the buffer.
complete_step_train(agent) ==
    [agent EXCEPT !.buffer_stores = @ + 1, !.model_updates = @ + 1]

\* complete_step_inference, storing the transition as a training step does.
complete_step_inference_storing(agent) ==
    [agent EXCEPT !.buffer_stores = @ + 1]

\* complete_step_inference: pass.
complete_step_inference(agent) == agent

\* complete_episode_warmup: pass.
complete_episode_warmup(agent) == agent

\* complete_episode_train: one exploration policy update.
complete_episode_train(agent) ==
    [agent EXCEPT !.policy_updates = @ + 1]

\* complete_episode_inference with an exploration policy update.
complete_episode_inference_updating(agent) ==
    [agent EXCEPT !.policy_updates = @ + 1]

\* complete_episode_inference: pass.
complete_episode_inference(agent) == agent

\* The warmup_episodes property: what the model of the agent asks for.  An
\* agent that requires no pre-training has a model that asks for none.
agent_warmup_episodes(required) ==
    IF required THEN 0..MaxPreTrainEpisodes ELSE {0}

\* The agent counters as one record, and back.
Agent == [buffer_stores |-> buffer_stores, model_updates |-> model_updates,
          policy_updates |-> policy_updates]

SetAgent(agent) ==
    /\ buffer_stores' = agent.buffer_stores
    /\ model_updates' = agent.model_updates
    /\ policy_updates' = agent.policy_updates

\* The steps of one episode, each completed by the agent in its mode.
RECURSIVE warmup_steps(_, _)
warmup_steps(agent, n) ==
    IF n = 0 THEN agent
    ELSE warmup_steps(complete_step_warmup(agent), n - 1)

RECURSIVE train_steps(_, _)
train_steps(agent, n) ==
    IF n = 0 THEN agent
    ELSE train_steps(complete_step_train(agent), n - 1)

RECURSIVE inference_steps(_, _)
inference_steps(agent, n) ==
    IF n = 0 THEN agent
    ELSE inference_steps(complete_step_inference(agent), n - 1)

\* One episode in each mode: its steps, then the completion of the episode.
warmup_episode(agent, steps) ==
    complete_episode_warmup(warmup_steps(agent, steps))

train_episode(agent, steps) ==
    complete_episode_train(train_steps(agent, steps))

inference_episode(agent, steps) ==
    complete_episode_inference(inference_steps(agent, steps))

\* _inference: episodes in inference mode.  No completion of an inference
\* step or episode changes the agent, so one episode of one step stands for
\* the interval.
_inference(agent) == inference_episode(agent, 1)

\* ------------------------------------------------- the exploration policy
\* Action space types an environment can report.
SpaceTypes == {"discrete", "continuous"}
\* Agent actions of a space of the given shape.
Actions(shape) == 0..(shape - 1)
\* Action values the model can predict for an observation: none of the
\* actions stands out, or one does.
Predictions(shape) ==
    {[a \in Actions(shape) |-> 0]}
        \cup {[a \in Actions(shape) |-> IF a = b THEN 1 ELSE 0] :
                  b \in Actions(shape)}

\* ExplorationPolicy.__init__ of a variant: no space recorded, the variant's
\* supported types, its schedule parameters, nothing defined yet.
exploration_policy_new(supported, minimum, maximum, decay) ==
    [supported_action_space_types |-> supported,
     agent_action_space_type |-> "None",
     agent_action_space_shape |-> 0,
     define_calls |-> 0,
     generated |-> "unset",
     initialized |-> FALSE,
     schedule |-> 0,
     schedule_min |-> minimum,
     schedule_max |-> maximum,
     schedule_decay |-> decay,
     updates |-> 0]

\* ExplorationPolicy.generate: the _define hook is called with the policy.
generate_define_always(policy) ==
    [policy EXCEPT !.define_calls = @ + 1]

\* ExplorationPolicy.generate: the space is recorded first, then the type is
\* looked up in the supported types; _define runs only when it is found.
generate_define(policy) ==
    IF policy.agent_action_space_type \in policy.supported_action_space_types
    THEN [policy EXCEPT !.define_calls = @ + 1]
    ELSE policy

\* ExplorationPolicy.generate, recording the space only when its type is
\* supported.
generate_recording_on_success(policy, agent_action_space_type, agent_action_space_shape) ==
    IF agent_action_space_type \in policy.supported_action_space_types
    THEN [policy EXCEPT
              !.agent_action_space_type = agent_action_space_type,
              !.agent_action_space_shape = agent_action_space_shape,
              !.define_calls = @ + 1,
              !.generated = "True"]
    ELSE [policy EXCEPT !.generated = "False"]

generate(policy, agent_action_space_type, agent_action_space_shape) ==
    LET recorded ==
            [policy EXCEPT
                !.agent_action_space_type = agent_action_space_type,
                !.agent_action_space_shape = agent_action_space_shape]
        supported ==
            agent_action_space_type \in policy.supported_action_space_types
        defined == generate_define(recorded)
    IN  [defined EXCEPT !.generated = IF supported THEN "True" ELSE "False"]

\* ExplorationPolicy.initialize of a variant, stepping the schedule back
\* towards its maximum by one decay.
policy_initialize_stepping_back(policy) ==
    LET raised == policy.schedule + policy.schedule_decay
    IN  [policy EXCEPT
            !.initialized = TRUE,
            !.schedule = IF raised > policy.schedule_max
                         THEN policy.schedule_max ELSE raised,
            !.updates = 0]

\* ExplorationPolicy.initialize of a variant: the schedule restarts at its
\* maximum.
policy_initialize(policy) ==
    [policy EXCEPT !.initialized = TRUE,
                   !.schedule = policy.schedule_max,
                   !.updates = 0]

\* ExplorationPolicy.update of a variant, decaying without a floor.
policy_update_no_floor(policy) ==
    [policy EXCEPT !.schedule = @ - policy.schedule_decay,
                   !.updates = @ + 1]

\* ExplorationPolicy.update of a variant, leaving the schedule where it is.
policy_update_stalled(policy) ==
    [policy EXCEPT !.updates = @ + 1]

\* ExplorationPolicy.update of a variant: the schedule decays by its decay
\* value and stops at its minimum.
policy_update(policy) ==
    LET decayed == policy.schedule - policy.schedule_decay
    IN  [policy EXCEPT
            !.schedule = IF decayed < policy.schedule_min
                         THEN policy.schedule_min ELSE decayed,
            !.updates = @ + 1]

RECURSIVE policy_updates_applied(_, _)
policy_updates_applied(policy, n) ==
    IF n = 0 THEN policy
    ELSE policy_updates_applied(policy_update(policy), n - 1)

\* ExplorationPolicy.act of a variant (epsilon greedy): a random action when
\* the draw falls below the schedule, the best action otherwise.
policy_act(policy, all_actions, best_action, draw, random_action) ==
    [policy |-> policy,
     action |-> IF draw < policy.schedule THEN random_action
                ELSE best_action]

\* Valid schedule configurations of a policy variant: minimum <= maximum and
\* a positive decay, with the action space types the variant supports.
PolicyConfigurations ==
    {exploration_policy_new(supported, range[1], range[2], decay) :
        supported \in SUBSET SpaceTypes,
        range \in {r \in (0..MaxSchedule) \X (0..MaxSchedule) : r[1] <= r[2]},
        decay \in 1..MaxDecay}

\* ------------------------------------------------ the agent, call by call
\* A generation result as the caller sees it.
result_of(success) == IF success THEN "True" ELSE "False"

\* TabularExpectedSARSAAgent._generate, generating the model whatever the
\* policy returned.
_generate_model_always(policy, space_type, space_shape, model_success) ==
    LET generated == generate(policy, space_type, space_shape)
    IN  [policy |-> generated,
         calls |-> <<"exploration_policy.generate", "model.generate">>,
         result |-> model_success]

\* TabularExpectedSARSAAgent._generate: the policy first, the model only
\* when the policy was generated.
_generate(policy, space_type, space_shape, model_success) ==
    LET generated == generate(policy, space_type, space_shape)
    IN  IF generated.generated = "True"
        THEN [policy |-> generated,
              calls |-> <<"exploration_policy.generate", "model.generate">>,
              result |-> model_success]
        ELSE [policy |-> generated,
              calls |-> <<"exploration_policy.generate">>,
              result |-> FALSE]

\* TabularExpectedSARSAAgent.initialize: the loss and the errors kept from
\* the last update are dropped, then the model is initialized, then the
\* policy.
initialize(policy) ==
    [policy |-> policy_initialize(policy),
     current_absolute_errors |-> <<>>,
     current_loss |-> <<>>,
     calls |-> <<"model.initialize", "exploration_policy.initialize">>]

\* The best actions of a prediction: those of the highest value.
best_actions(all_actions) ==
    {a \in DOMAIN all_actions :
        \A b \in DOMAIN all_actions : all_actions[b] <= all_actions[a]}

\* TabularExpectedSARSAAgent.act_train, with a policy that is updated by the
\* selection.
act_train_updating(policy, all_actions, best_action, draw, random_action) ==
    LET acted == policy_act(policy, all_actions, best_action, draw,
                            random_action)
    IN  [policy |-> policy_update(acted.policy),
         action |-> acted.action,
         calls |-> <<"model.get_best_action_and_all_action_values",
                     "exploration_policy.act">>,
         results |-> <<best_action, acted.action>>]

\* TabularExpectedSARSAAgent.act_train: the model's prediction, then the
\* selection of the exploration policy.
act_train(policy, all_actions, best_action, draw, random_action) ==
    LET acted == policy_act(policy, all_actions, best_action, draw,
                            random_action)
    IN  [policy |-> acted.policy,
         action |-> acted.action,
         calls |-> <<"model.get_best_action_and_all_action_values",
                     "exploration_policy.act">>,
         results |-> <<best_action, acted.action>>]

\* TabularExpectedSARSAAgent.act_warmup: a random action of the interface.
act_warmup(policy, random_action) ==
    [policy |-> policy,
     action |-> random_action,
     calls |-> <<"interface.get_random_agent_action">>,
     results |-> <<random_action>>]

\* An act_inference that lets the exploration policy select, never
\* exploring.
act_inference_through_policy(policy, best_action) ==
    LET acted == policy_act(policy, <<>>, best_action, MaxSchedule, 0)
    IN  [policy |-> acted.policy,
         action |-> acted.action,
         calls |-> <<"model.get_best_action_and_all_action_values",
                     "exploration_policy.act">>,
         results |-> <<best_action, acted.action>>]

\* TabularExpectedSARSAAgent.act_inference: the model's best action.
act_inference(policy, best_action) ==
    [policy |-> policy,
     action |-> best_action,
     calls |-> <<"model.get_best_action">>,
     results |-> <<best_action>>]

\* ------------------------------------------- complete_step_train in detail
\* complete_step_train, updating the model before the transition is stored.
complete_step_train_calls_update_first ==
    <<"model.buffer.get", "model.update", "model.buffer.store",
      "model.buffer.update", "summary_writer.add_summary">>

\* Lines 143-149: the calls of complete_step_train, in order.
complete_step_train_calls ==
    <<"model.buffer.store", "model.buffer.get", "model.update",
      "model.buffer.update", "summary_writer.add_summary">>

\* The calls made when the given call raises: those up to it.
RECURSIVE calls_until(_, _)
calls_until(made, raising) ==
    IF made = <<>> THEN <<>>
    ELSE IF Head(made) = raising THEN <<raising>>
    ELSE <<Head(made)>> \o calls_until(Tail(made), raising)

\* A batch size cut down to what the buffer holds.
requested_batch_clamped(size, held) == IF size > held THEN held ELSE size

\* Line 145: the batch asked of the buffer is self._batch_size, whatever
\* the buffer holds.
requested_batch(size, held) == size

\* Line 145: the batch is drawn when the transition of this step has been
\* stored (line 143): the buffer holds what it held and what was stored.
held_at_get(held_before, stores) == held_before + stores

\* buffer.get(amount): a sample of that many of the held transitions, by
\* their places in the buffer.  There is none when fewer are held: the
\* buffer raises.
buffer_get(held, amount) ==
    {drawn \in SUBSET (1..held) : Cardinality(drawn) = amount}

\* model.update(batch): the loss and one absolute error per sample.
model_update(drawn, sample_error) ==
    [loss |-> <<sample_error * Cardinality(drawn)>>,
     absolute_errors |-> [i \in 1..Cardinality(drawn) |-> sample_error]]

\* The loss given to buffer.update in place of the errors.
fed_to_buffer_loss(loss, absolute_errors) == loss

\* Line 147: buffer.update is given the absolute errors of the update.
fed_to_buffer(loss, absolute_errors) == absolute_errors

\* --------------------------------------------------- Experiment.conduct
\* conduct initializing the agent before the environment.
conduct_initialize_agent_first(policy) ==
    LET initialized == initialize(policy)
    IN  [policy |-> initialized.policy,
         current_loss |-> initialized.current_loss,
         current_absolute_errors |-> initialized.current_absolute_errors,
         calls |-> <<"agent.initialize">> \o initialized.calls
                       \o <<"environment.initialize">>]

\* Lines 255-256: the environment is initialized, then the agent; the calls
\* the agent's initialize makes follow it.
conduct_initialize(policy) ==
    LET initialized == initialize(policy)
    IN  [policy |-> initialized.policy,
         current_loss |-> initialized.current_loss,
         current_absolute_errors |-> initialized.current_absolute_errors,
         calls |-> <<"environment.initialize", "agent.initialize">>
                       \o initialized.calls]

\* What a training episode leaves on the agent: the loss and the errors of
\* its last model update, of which one outcome is followed, and a policy
\* updated as often as the episode updates it.
episode_trained(policy, kept, completed) ==
    LET updated == model_update({1}, 1)
    IN  [policy |->
             policy_updates_applied(
                 policy, completed.policy_updates - Agent.policy_updates),
         current_loss |->
             IF completed.model_updates > Agent.model_updates
             THEN updated.loss ELSE kept[1],
         current_absolute_errors |->
             IF completed.model_updates > Agent.model_updates
             THEN updated.absolute_errors ELSE kept[2]]

\* Pre-training whatever the agent requires.
pre_train_always(required) == TRUE

\* Line 258: pre-training runs if the agent requires it.
pre_train_required(required) == required

\* Line 260: the number of episodes handed to _pre_train.
pre_train_argument(episodes) == episodes

\* Line 265: the condition of the train/validate loop.
loop_condition(counter, maximum) == counter < maximum

\* One training episode counted per interval.
count_interval_single(counter, interval) == counter + 1

\* Line 271: the counter after one more training interval.
count_interval(counter, interval) == counter + interval

\* The step counter, had _train's result been taken for the running total
\* from start_step on.
count_steps_from_start(counter, training_step) == training_step

\* Line 272: the step counter after an interval of training_step steps.
count_steps(counter, training_step) == counter + training_step

\* A loop that validates again after a failed validation.
after_validation_revalidate(success) ==
    IF success THEN "test" ELSE "validate"

\* A validation that wants the score strictly above the threshold.
_validate_strict(average_score, threshold) == average_score > threshold

\* _validate as implemented by the experiment variants: the validation
\* score reaches the validation threshold.
_validate(average_score, threshold) == average_score >= threshold

\* A validation check without the break.
after_validation_no_break(success) == "loop"

\* Lines 279-281: where the loop goes after the validation check.
after_validation(success) == IF success THEN "test" ELSE "loop"

\* A test loop that stops one trial short.
test_range_short(tests) == 1..(tests - 1)

\* Line 284: the trials of the test phase.
test_range(tests) == 1..tests

\* Scores kept newest first.
prepend_score(all_scores, score) == <<score>> \o all_scores

\* Line 288: scores.append(score).
append_score(all_scores, score) == Append(all_scores, score)

\* Line 290: sum(scores) / episodes_per_test * number_of_tests, exactly.
final_score_of(all_scores, episodes, tests) ==
    [num |-> Sum(all_scores) * tests, den |-> episodes]

\* The score of the last trial.
last_score_of(all_scores) == all_scores[Len(all_scores)]

\* Line 291: numpy.max(scores), of a list that is not empty.
RECURSIVE best_score_of(_)
best_score_of(all_scores) ==
    IF Len(all_scores) = 1 THEN Head(all_scores)
    ELSE LET rest == best_score_of(Tail(all_scores))
         IN  IF Head(all_scores) >= rest THEN Head(all_scores) ELSE rest

\* _test as implemented by the experiment variants: the final score
\* reaches the test threshold.
_test(average_score, threshold) ==
    average_score.num >= threshold * average_score.den

\* A conduct that returns its results only for a successful experiment.
conduct_return_if_successful(final, best, counter, successful) ==
    IF successful THEN <<final, best, counter>> ELSE <<>>

\* Lines 295-301: the outcome of _test selects the message that is logged;
\* the triple is returned after either.
conduct_return(final, best, counter, successful) ==
    <<final, best, counter>>

\* Lines 237-263: the environment and the agent are initialized, and
\* pre-training starts if the agent requires it.  The two counters are
\* bound at lines 262-263, before anything reads them.
conduct_begin(interval, maximum, episodes, tests) ==
    /\ pc = "idle"
    /\ training_episodes_per_interval' = interval
    /\ max_training_episodes' = maximum
    /\ episodes_per_test' = episodes
    /\ number_of_tests' = tests
    /\ training_episodes_counter' = 0
    /\ training_steps_counter' = 0
    /\ validation_score' = 0
    /\ validated' = FALSE
    /\ intervals_run' = 0
    /\ validations_run' = 0
    /\ warmup_episodes_run' = 0
    /\ interval_episodes_run' = 0
    /\ interval_steps' = 0
    /\ scores' = <<>>
    /\ test_trials' = <<>>
    /\ final_score' = NoScore
    /\ best_score' = 0
    /\ experiment_successful' = FALSE
    /\ error' = "none"
    /\ return_value' = <<>>
    /\ buffer_stores' = 0
    /\ model_updates' = 0
    /\ policy_updates' = 0
    /\ LET initialized == conduct_initialize(exploration_policy)
       IN  /\ exploration_policy' = initialized.policy
           /\ current_loss' = initialized.current_loss
           /\ current_absolute_errors' = initialized.current_absolute_errors
           /\ conduct_calls' = initialized.calls
    /\ pc' = IF pre_train_required(require_pre_train)
             THEN "pre_train" ELSE "loop"
    /\ UNCHANGED <<configVars, setupVars>>

\* _pre_train: one warmup episode, while episodes are left to play.
pre_train_episode(steps) ==
    /\ pc = "pre_train"
    /\ warmup_episodes_run < pre_train_argument(pre_train_episodes)
    /\ warmup_episodes_run' = warmup_episodes_run + 1
    /\ SetAgent(warmup_episode(Agent, steps))
    /\ UNCHANGED <<pc, configVars, setupVars, paramVars, loopVars, trainVars,
                   testVars,
                   learnedVars>>

\* _pre_train returns; the loop starts (line 265).
pre_train_return ==
    /\ pc = "pre_train"
    /\ warmup_episodes_run >= pre_train_argument(pre_train_episodes)
    /\ pc' = "loop"
    /\ UNCHANGED <<configVars, setupVars, paramVars, loopVars, trainVars,
                   testVars, agentVars, warmup_episodes_run,
                   learnedVars>>

\* Line 265: the head of the while loop.
loop_head ==
    /\ pc = "loop"
    /\ pc' = IF loop_condition(training_episodes_counter,
                               max_training_episodes)
             THEN "train" ELSE "test"
    /\ interval_episodes_run' = 0
    /\ interval_steps' = 0
    /\ UNCHANGED <<configVars, setupVars, paramVars, loopVars, testVars,
                   agentVars, warmup_episodes_run,
                   learnedVars>>

\* _train (line 268): one training episode of the interval.
train_episode_run(steps) ==
    /\ pc = "train"
    /\ interval_episodes_run < training_episodes_per_interval
    /\ interval_episodes_run' = interval_episodes_run + 1
    /\ interval_steps' = interval_steps + steps
    /\ LET completed == train_episode(Agent, steps)
           trained == episode_trained(exploration_policy, lossVars, completed)
       IN  /\ SetAgent(completed)
           /\ exploration_policy' = trained.policy
           /\ current_loss' = trained.current_loss
           /\ current_absolute_errors' = trained.current_absolute_errors
    /\ UNCHANGED <<pc, configVars, setupVars, paramVars, loopVars, testVars,
                   warmup_episodes_run>>

\* _train returns the steps it took; lines 271-272 add to the counters.
train_return ==
    /\ pc = "train"
    /\ interval_episodes_run >= training_episodes_per_interval
    /\ training_episodes_counter' =
           count_interval(training_episodes_counter,
                          training_episodes_per_interval)
    /\ training_steps_counter' =
           count_steps(training_steps_counter, interval_steps)
    /\ intervals_run' = intervals_run + 1
    /\ pc' = "validate"
    /\ UNCHANGED <<configVars, setupVars, paramVars, validation_score,
                   validated, validations_run, trainVars, testVars,
                   agentVars, warmup_episodes_run,
                   learnedVars>>

\* Lines 275-281: the validation interval in inference mode, which leaves
\* the agent as it is, then the validation check and the break.
validate(score) ==
    /\ pc = "validate"
    /\ validation_score' = score
    /\ validations_run' = validations_run + 1
    /\ SetAgent(_inference(Agent))
    /\ LET success == _validate(score, validation_success_threshold)
       IN  /\ validated' = success
           /\ pc' = after_validation(success)
    /\ UNCHANGED <<configVars, learnedVars, setupVars, paramVars,
                   training_episodes_counter, training_steps_counter,
                   intervals_run, trainVars, testVars, warmup_episodes_run>>

\* Lines 284-288: one trial of the test phase.  The value bound at line
\* 286 is the float its annotation declares, the average score.
test_trial(score) ==
    /\ pc = "test"
    /\ Len(scores) + 1 \in test_range(number_of_tests)
    /\ scores' = append_score(scores, score)
    /\ test_trials' = Append(test_trials,
                             [episodes |-> episodes_per_test,
                              score |-> score])
    /\ SetAgent(_inference(Agent))
    /\ UNCHANGED <<pc, configVars, setupVars, paramVars, loopVars, trainVars,
                   final_score, best_score, experiment_successful, error,
                   return_value, warmup_episodes_run,
                   learnedVars>>

\* Lines 290-301: aggregation, the test predicate, the return.
\* numpy.max of an empty list raises ValueError.
aggregate ==
    /\ pc = "test"
    /\ Len(scores) + 1 \notin test_range(number_of_tests)
    /\ final_score' = final_score_of(scores, episodes_per_test,
                                     number_of_tests)
    /\ IF scores = <<>>
       THEN /\ pc' = "raised"
            /\ error' = "ValueError"
            /\ UNCHANGED <<best_score, experiment_successful, return_value>>
       ELSE /\ pc' = "done"
            /\ best_score' = best_score_of(scores)
            /\ experiment_successful' =
                   _test(final_score', test_success_threshold)
            /\ return_value' =
                   conduct_return(final_score', best_score',
                                  training_episodes_counter,
                                  experiment_successful')
            /\ UNCHANGED error
    /\ UNCHANGED <<configVars, setupVars, paramVars, loopVars, trainVars,
                   scores, test_trials, agentVars, warmup_episodes_run,
                   learnedVars>>

\* conduct has returned or raised: its frame is gone, and the instance can
\* be set up and conducted again.
conduct_end ==
    /\ pc \in {"done", "raised"}
    /\ pc' = "idle"
    /\ training_episodes_per_interval' = 0
    /\ max_training_episodes' = 0
    /\ episodes_per_test' = 1
    /\ number_of_tests' = 0
    /\ conduct_calls' = <<>>
    /\ training_episodes_counter' = 0
    /\ training_steps_counter' = 0
    /\ validation_score' = 0
    /\ validated' = FALSE
    /\ scores' = <<>>
    /\ final_score' = NoScore
    /\ best_score' = 0
    /\ experiment_successful' = FALSE
    /\ error' = "none"
    /\ return_value' = <<>>
    /\ warmup_episodes_run' = 0
    /\ interval_episodes_run' = 0
    /\ interval_steps' = 0
    /\ intervals_run' = 0
    /\ validations_run' = 0
    /\ test_trials' = <<>>
    /\ UNCHANGED <<configVars, learnedVars, setupVars, agentVars>>

\* ------------------------------------------------- the experiment's steps
\* The agent method each step of the experiment asks for its action.
train_step_act == "agent.act_pre_train"
pre_train_step_act == "agent.act_pre_train"
inference_step_act == "agent.act_inference"

\* A step that renders, then steps the environment.
environment_step_rendering_first(render) ==
    IF render THEN <<"environment.render", "environment.step">>
    ELSE <<"environment.step">>

\* What a step does after the action: the environment steps, and renders
\* when asked to.
environment_step(render) ==
    IF render THEN <<"environment.step", "environment.render">>
    ELSE <<"environment.step">>

_train_step(render) == <<train_step_act>> \o environment_step(render)
_pre_train_step(render) == <<pre_train_step_act>> \o environment_step(render)
_inference_step(render) == <<inference_step_act>> \o environment_step(render)

\* ------------------------------------------------ what the buffer is given
\* Observations as the agent receives them: None, an integer of a discrete
\* space, or an array of a continuous one.
None == [kind |-> "None", value |-> <<>>]
discrete_observation(n) == [kind |-> "int", value |-> <<n>>]
continuous_observation(v) == [kind |-> "ndarray", value |-> v]

\* numpy.zeros(shape, dtype=float)
zeros(shape) == continuous_observation([i \in 1..shape |-> 0])

\* Observations an environment of the given space hands out.
Observations(space) ==
    IF space.type = "discrete"
    THEN {discrete_observation(n) : n \in 0..(space.shape - 1)}
    ELSE {continuous_observation([i \in 1..space.shape |-> v]) : v \in 0..1}

ObservationSpaces == [type : SpaceTypes, shape : 1..MaxShape]

\* The next observation handed to the buffer as it came.
adjust_next_observation_unadjusted(space, agent_observation_next) ==
    [agent_observation_next |-> agent_observation_next,
     last_step |-> agent_observation_next = None]

\* complete_step_warmup and complete_step_train, before the store: a None
\* next observation marks the last step and is replaced by 0 in a discrete
\* space and by zeros of the space's shape otherwise.
adjust_next_observation(space, agent_observation_next) ==
    IF agent_observation_next = None
    THEN [agent_observation_next |->
              IF space.type = "discrete" THEN discrete_observation(0)
              ELSE zeros(space.shape),
          last_step |-> TRUE]
    ELSE [agent_observation_next |-> agent_observation_next,
          last_step |-> FALSE]

\* The arguments of model.buffer.store, with a last step flag read off the
\* observation that is stored.
stored_flagging_sentinel(space, step) ==
    LET adjusted ==
            adjust_next_observation(space, step.agent_observation_next)
    IN  [agent_observation_current |-> step.agent_observation_current,
         agent_action |-> step.agent_action,
         reward |-> step.reward,
         agent_observation_next |-> adjusted.agent_observation_next,
         last_step |-> adjusted.agent_observation_next
                           = adjust_next_observation(space, None).agent_observation_next]

\* The arguments of model.buffer.store, for the step a completion is given.
stored(space, step) ==
    LET adjusted ==
            adjust_next_observation(space, step.agent_observation_next)
    IN  [agent_observation_current |-> step.agent_observation_current,
         agent_action |-> step.agent_action,
         reward |-> step.reward,
         agent_observation_next |-> adjusted.agent_observation_next,
         last_step |-> adjusted.last_step]

\* The calls a step completion makes, read off the agent's counters: its
\* stores, then its model updates.
step_stores(completed) == completed.buffer_stores - Agent.buffer_stores
step_updates(completed) == completed.model_updates - Agent.model_updates

step_calls(completed) ==
    [i \in 1..step_stores(completed) |-> "model.buffer.store"]
        \o [i \in 1..step_updates(completed) |-> "model.update"]

\* ---------------------------------------------------- the specification
InitExperiment ==
    /\ pc = "idle"
    /\ validation_success_threshold \in Thresholds
    /\ test_success_threshold \in Thresholds
    /\ pre_train_episodes \in 0..MaxPreTrainEpisodes
    /\ require_pre_train \in BOOLEAN
    /\ warmup_episodes \in agent_warmup_episodes(require_pre_train)
    /\ setup_calls = <<>>
    /\ setup_result = "unset"
    /\ training_episodes_per_interval = 0
    /\ max_training_episodes = 0
    /\ episodes_per_test = 1
    /\ number_of_tests = 0
    /\ conduct_calls = <<>>
    /\ training_episodes_counter = 0
    /\ training_steps_counter = 0
    /\ validation_score = 0
    /\ validated = FALSE
    /\ scores = <<>>
    /\ final_score = NoScore
    /\ best_score = 0
    /\ experiment_successful = FALSE
    /\ error = "none"
    /\ return_value = <<>>
    /\ warmup_episodes_run = 0
    /\ interval_episodes_run = 0
    /\ interval_steps = 0
    /\ intervals_run = 0
    /\ validations_run = 0
    /\ test_trials = <<>>
    /\ buffer_stores = 0
    /\ model_updates = 0
    /\ policy_updates = 0

\* No step has been completed yet.
no_step ==
    [agent_observation_current |-> None,
     agent_action |-> 0,
     reward |-> 0,
     agent_observation_next |-> None]

\* No experiment step is in progress and none has been taken.
InitStep ==
    /\ step_position = 0
    /\ step_render = FALSE
    /\ environment_action = <<>>
    /\ environment_result = <<>>
    /\ step_result = <<>>
    /\ steps_issued = 0
    /\ steps_returned = 0

\* The agent after its construction: nothing generated, nothing drawn, no
\* loss and no errors yet.
InitAgent ==
    /\ call_results = <<>>
    /\ model_generate_result = "unset"
    /\ agent_generate_result = "unset"
    /\ generate_arguments = [agent_action_space_type |-> "None",
                             agent_action_space_shape |-> 0]
    /\ batch = {}
    /\ current_loss = <<>>
    /\ current_absolute_errors = <<>>
    /\ buffer_update_argument = <<>>
    /\ agent_error = "none"
    /\ step_arguments = no_step

Init ==
    /\ InitExperiment
    /\ InitAgent
    /\ InitStep
    /\ batch_size = 1
    /\ exploration_policy = exploration_policy_new({"discrete"}, 0, MaxSchedule, 1)
    /\ operation = "none"
    /\ calls = <<>>
    /\ selected_action = 0
    /\ observation_space = [type |-> "discrete", shape |-> 1]
    /\ buffer = <<>>
    /\ driver = "none"
    /\ experiments = <<>>
    /\ running = 0
    /\ run_steps = 0
    /\ environment_steps = <<>>
    /\ model_stores = <<>>

Next ==
    \/ \E environment_ok \in BOOLEAN, agent_ok \in BOOLEAN :
           setup(environment_ok, agent_ok)
    \/ setup_end
    \/ \E interval \in 1..MaxInterval,
          maximum \in 0..MaxTrainingEpisodes,
          episodes \in 1..MaxEpisodesPerTest,
          tests \in 0..MaxTests :
           conduct_begin(interval, maximum, episodes, tests)
    \/ \E steps \in EpisodeSteps : pre_train_episode(steps)
    \/ pre_train_return
    \/ loop_head
    \/ \E steps \in EpisodeSteps : train_episode_run(steps)
    \/ train_return
    \/ \E score \in Scores : validate(score)
    \/ \E score \in Scores : test_trial(score)
    \/ aggregate
    \/ conduct_end

Spec == Init /\ [][Next]_vars

\* ------------------------------------- the agent and its policy, by call
\* Every variable of the experiment's control loop.
experimentVars == <<pc, validation_success_threshold, test_success_threshold,
                    pre_train_episodes, require_pre_train, warmup_episodes,
                    setup_calls, setup_result,
                    training_episodes_per_interval, max_training_episodes,
                    episodes_per_test, number_of_tests,
                    training_episodes_counter, training_steps_counter,
                    validation_score, validated, scores, final_score,
                    best_score, experiment_successful, error, return_value,
                    conduct_calls,
                    warmup_episodes_run, interval_episodes_run,
                    interval_steps, intervals_run, validations_run,
                    test_trials, buffer_stores, model_updates,
                    policy_updates>>

\* Every variable of the benchmark drivers.
driverVars == <<driver, experiments, running, run_steps, environment_steps,
                model_stores>>

\* Agent._generate, called by Experiment.setup with the environment's spaces.
agent_generate(space_type, space_shape, model_success) ==
    /\ agent_error = "none"
    /\ exploration_policy.generated = "unset"
    /\ LET generated == _generate(exploration_policy, space_type, space_shape,
                                  model_success)
       IN  /\ exploration_policy' = generated.policy
           /\ calls' = generated.calls
           /\ model_generate_result' =
                  IF \E i \in DOMAIN generated.calls :
                         generated.calls[i] = "model.generate"
                  THEN result_of(model_success)
                  ELSE "unset"
           /\ agent_generate_result' = result_of(generated.result)
    /\ generate_arguments' = [agent_action_space_type |-> space_type,
                              agent_action_space_shape |-> space_shape]
    /\ operation' = "_generate"
    /\ call_results' = <<>>
    /\ UNCHANGED <<experimentVars, selected_action, observation_space,
                   buffer, driverVars, stepVars, trainingVars, lossVars>>

\* Agent.initialize, called at the start of conduct, which a set up agent
\* reaches.
agent_initialize ==
    /\ agent_error = "none"
    /\ agent_generate_result = "True"
    /\ LET initialized == initialize(exploration_policy)
       IN  /\ exploration_policy' = initialized.policy
           /\ calls' = initialized.calls
           /\ current_loss' = initialized.current_loss
           /\ current_absolute_errors' = initialized.current_absolute_errors
    /\ operation' = "initialize"
    /\ call_results' = <<>>
    /\ UNCHANGED <<experimentVars, selected_action, observation_space,
                   buffer, driverVars, stepVars, generationVars, trainingVars>>

agent_act_train(all_actions, best_action, draw, random_action) ==
    /\ agent_error = "none"
    /\ exploration_policy.initialized
    /\ LET acted == act_train(exploration_policy, all_actions, best_action,
                              draw, random_action)
       IN  /\ exploration_policy' = acted.policy
           /\ selected_action' = acted.action
           /\ calls' = acted.calls
           /\ call_results' = acted.results
    /\ operation' = "act_train"
    /\ UNCHANGED <<experimentVars, observation_space, buffer, driverVars, stepVars,
                   generationVars, trainingVars, lossVars>>

agent_act_warmup(random_action) ==
    /\ agent_error = "none"
    /\ exploration_policy.initialized
    /\ LET acted == act_warmup(exploration_policy, random_action)
       IN  /\ exploration_policy' = acted.policy
           /\ selected_action' = acted.action
           /\ calls' = acted.calls
           /\ call_results' = acted.results
    /\ operation' = "act_warmup"
    /\ UNCHANGED <<experimentVars, observation_space, buffer, driverVars, stepVars,
                   generationVars, trainingVars, lossVars>>

agent_act_inference(best_action) ==
    /\ agent_error = "none"
    /\ exploration_policy.initialized
    /\ LET acted == act_inference(exploration_policy, best_action)
       IN  /\ exploration_policy' = acted.policy
           /\ selected_action' = acted.action
           /\ calls' = acted.calls
           /\ call_results' = acted.results
    /\ operation' = "act_inference"
    /\ UNCHANGED <<experimentVars, observation_space, buffer, driverVars, stepVars,
                   generationVars, trainingVars, lossVars>>

\* The exploration_policy.update calls an episode completion makes, read off
\* the agent's counter.
episode_updates(completed) == completed.policy_updates - Agent.policy_updates

episode_calls(completed) ==
    [i \in 1..episode_updates(completed) |-> "exploration_policy.update"]

\* An episode completion in one mode: the policy is updated as often as the
\* mode updates it.
complete_episode(completed, name) ==
    /\ agent_error = "none"
    /\ exploration_policy.initialized
    /\ exploration_policy.updates < MaxPolicyUpdates
    /\ exploration_policy' =
           policy_updates_applied(exploration_policy,
                                  episode_updates(completed))
    /\ calls' = episode_calls(completed)
    /\ call_results' = <<>>
    /\ operation' = name
    /\ UNCHANGED <<experimentVars, selected_action, observation_space,
                   buffer, driverVars, stepVars, generationVars, trainingVars,
                   lossVars>>

agent_complete_episode_train ==
    complete_episode(complete_episode_train(Agent), "complete_episode_train")

agent_complete_episode_warmup ==
    complete_episode(complete_episode_warmup(Agent), "complete_episode_warmup")

agent_complete_episode_inference ==
    complete_episode(complete_episode_inference(Agent),
                     "complete_episode_inference")

\* Experiment._train_step, _pre_train_step and _inference_step: the calls
\* each makes, in order.
experiment_step(made, name) ==
    /\ agent_error = "none"
    /\ exploration_policy.initialized
    /\ operation' = name
    /\ calls' = made
    /\ call_results' = <<>>
    /\ UNCHANGED <<experimentVars, exploration_policy, selected_action,
                   observation_space, buffer, driverVars, stepVars, generationVars,
                   trainingVars, lossVars>>

experiment_train_step(render) ==
    experiment_step(_train_step(render), "_train_step")

experiment_pre_train_step(render) ==
    experiment_step(_pre_train_step(render), "_pre_train_step")

experiment_inference_step(render) ==
    experiment_step(_inference_step(render), "_inference_step")

AgentInit ==
    /\ InitExperiment
    /\ ~require_pre_train
    /\ pre_train_episodes = 0
    /\ exploration_policy \in PolicyConfigurations
    /\ operation = "none"
    /\ calls = <<>>
    /\ selected_action = 0
    /\ observation_space = [type |-> "discrete", shape |-> 1]
    /\ buffer = <<>>
    /\ InitAgent
    /\ InitStep
    /\ batch_size = 1
    /\ driver = "none"
    /\ experiments = <<>>
    /\ running = 0
    /\ run_steps = 0
    /\ environment_steps = <<>>
    /\ model_stores = <<>>

AgentNext ==
    \/ \E space_type \in SpaceTypes, space_shape \in 1..MaxActions,
          model_success \in BOOLEAN :
           agent_generate(space_type, space_shape, model_success)
    \/ agent_initialize
    \/ \E all_actions \in
              Predictions(exploration_policy.agent_action_space_shape),
          draw \in 0..(MaxSchedule - 1),
          random_action \in
              Actions(exploration_policy.agent_action_space_shape) :
           \E best_action \in best_actions(all_actions) :
               agent_act_train(all_actions, best_action, draw, random_action)
    \/ \E random_action \in
              Actions(exploration_policy.agent_action_space_shape) :
           agent_act_warmup(random_action)
    \/ \E best_action \in
              Actions(exploration_policy.agent_action_space_shape) :
           agent_act_inference(best_action)
    \/ agent_complete_episode_train
    \/ agent_complete_episode_warmup
    \/ agent_complete_episode_inference
    \/ \E render \in BOOLEAN : experiment_train_step(render)
    \/ \E render \in BOOLEAN : experiment_pre_train_step(render)
    \/ \E render \in BOOLEAN : experiment_inference_step(render)

AgentSpec == AgentInit /\ [][AgentNext]_vars

\* ---------------------------------------- the agent's buffer, step by step
\* A step completion that stores at most: the transition goes to the buffer
\* as often as the mode stores it.
complete_step(completed, name, step) ==
    /\ agent_error = "none"
    /\ Len(buffer) + step_stores(completed) <= MaxBuffer
    /\ buffer' = buffer \o
           [i \in 1..step_stores(completed) |->
               stored(observation_space, step)]
    /\ step_arguments' =
           IF step_stores(completed) > 0 THEN step ELSE step_arguments
    /\ calls' = step_calls(completed)
    /\ call_results' = <<>>
    /\ operation' = name
    /\ UNCHANGED <<experimentVars, observation_space, exploration_policy,
                   selected_action, driverVars, stepVars, generationVars, batchVars,
                   lossVars>>

agent_complete_step_warmup(step) ==
    complete_step(complete_step_warmup(Agent), "complete_step_warmup", step)

\* complete_step_train: the transition is stored, a batch is drawn, the
\* model is updated with it, the buffer is given the errors, the summary is
\* written.  A buffer that cannot give the batch raises out of the method.
agent_complete_step_train(step, sample_error) ==
    /\ agent_error = "none"
    /\ LET completed == complete_step_train(Agent)
           held == held_at_get(Len(buffer), step_stores(completed))
           batches == buffer_get(held, requested_batch(batch_size, held))
       IN  /\ Len(buffer) + step_stores(completed) <= MaxBuffer
           /\ buffer' = buffer \o
                  [i \in 1..step_stores(completed) |->
                      stored(observation_space, step)]
           /\ IF batches = {}
              THEN /\ agent_error' = "BufferUnderflow"
                   /\ calls' = calls_until(complete_step_train_calls,
                                           "model.buffer.get")
                   /\ UNCHANGED <<batch, buffer_update_argument, lossVars>>
              ELSE \E drawn \in batches :
                     LET updated == model_update(drawn, sample_error)
                     IN  /\ batch' = drawn
                         /\ current_loss' = updated.loss
                         /\ current_absolute_errors' = updated.absolute_errors
                         /\ buffer_update_argument' =
                                fed_to_buffer(updated.loss,
                                              updated.absolute_errors)
                         /\ calls' = complete_step_train_calls
                         /\ UNCHANGED agent_error
    /\ step_arguments' = step
    /\ call_results' = <<>>
    /\ operation' = "complete_step_train"
    /\ UNCHANGED <<experimentVars, observation_space, exploration_policy,
                   selected_action, driverVars, stepVars, generationVars, batch_size>>

agent_complete_step_inference(step) ==
    complete_step(complete_step_inference(Agent), "complete_step_inference",
                  step)

BufferInit ==
    /\ InitExperiment
    /\ ~require_pre_train
    /\ pre_train_episodes = 0
    /\ exploration_policy = exploration_policy_new({"discrete"}, 0, MaxSchedule, 1)
    /\ selected_action = 0
    /\ operation = "none"
    /\ calls = <<>>
    /\ observation_space \in ObservationSpaces
    /\ buffer = <<>>
    /\ InitAgent
    /\ InitStep
    /\ batch_size \in BatchSizes
    /\ driver = "none"
    /\ experiments = <<>>
    /\ running = 0
    /\ run_steps = 0
    /\ environment_steps = <<>>
    /\ model_stores = <<>>

\* What the experiment can hand to a step completion.
StepInputs ==
    [agent_observation_current : Observations(observation_space),
     agent_action : Actions(1),
     reward : Rewards,
     agent_observation_next : Observations(observation_space) \cup {None}]

BufferNext ==
    \/ \E step \in StepInputs : agent_complete_step_warmup(step)
    \/ \E step \in StepInputs, sample_error \in SampleErrors :
           agent_complete_step_train(step, sample_error)
    \/ \E step \in StepInputs : agent_complete_step_inference(step)

BufferSpec == BufferInit /\ [][BufferNext]_vars

\* ------------------------------------ every operation on one agent object
LifecycleInit ==
    /\ InitExperiment
    /\ ~require_pre_train
    /\ pre_train_episodes = 0
    /\ exploration_policy = exploration_policy_new({"discrete"}, 0, MaxSchedule, 1)
    /\ selected_action = 0
    /\ operation = "none"
    /\ calls = <<>>
    /\ observation_space = [type |-> "discrete", shape |-> 1]
    /\ buffer = <<>>
    /\ InitAgent
    /\ InitStep
    /\ batch_size = 1
    /\ driver = "none"
    /\ experiments = <<>>
    /\ running = 0
    /\ run_steps = 0
    /\ environment_steps = <<>>
    /\ model_stores = <<>>

LifecycleNext ==
    \/ \E space_shape \in 1..MaxActions, model_success \in BOOLEAN :
           agent_generate("discrete", space_shape, model_success)
    \/ agent_initialize
    \/ \E draw \in 0..(MaxSchedule - 1),
          random_action \in
              Actions(exploration_policy.agent_action_space_shape) :
           \E best_action \in
                  Actions(exploration_policy.agent_action_space_shape) :
               agent_act_train(<<>>, best_action, draw, random_action)
    \/ \E random_action \in
              Actions(exploration_policy.agent_action_space_shape) :
           agent_act_warmup(random_action)
    \/ \E best_action \in
              Actions(exploration_policy.agent_action_space_shape) :
           agent_act_inference(best_action)
    \/ agent_complete_episode_train
    \/ agent_complete_episode_warmup
    \/ agent_complete_episode_inference
    \/ experiment_inference_step(FALSE)
    \/ \E step \in StepInputs : agent_complete_step_warmup(step)
    \/ \E step \in StepInputs, sample_error \in SampleErrors :
           agent_complete_step_train(step, sample_error)
    \/ \E step \in StepInputs : agent_complete_step_inference(step)

LifecycleSpec == LifecycleInit /\ [][LifecycleNext]_vars

\* ------------------------------------- one experiment step, call by call
\* The steps of the experiment and the calls each makes, in order.
ExperimentSteps == {"_train_step", "_pre_train_step", "_inference_step"}

step_calls_of(name, render) ==
    CASE name = "_train_step" -> _train_step(render)
      [] name = "_pre_train_step" -> _pre_train_step(render)
      [] name = "_inference_step" -> _inference_step(render)

\* The methods of the agent that select an action.
ActCalls == {train_step_act, pre_train_step_act, inference_step_act}

\* The call the step in progress makes next, "return" after its last.
next_call ==
    LET made == step_calls_of(operation, step_render)
    IN  IF step_position \in DOMAIN made THEN made[step_position]
        ELSE "return"

\* What Environment.step returns: the next state, the reward and the
\* completion flag.
StepOutcomes ==
    [state_next : Observations(observation_space),
     reward : Rewards,
     episode_done : BOOLEAN]

\* The experiment enters one of its steps; no step is entered while another
\* has not returned.
step_begin(name, render) ==
    /\ step_position = 0
    /\ steps_returned < MaxRunSteps
    /\ operation' = name
    /\ step_render' = render
    /\ step_position' = 1
    /\ calls' = <<>>
    /\ environment_action' = <<>>
    /\ environment_result' = <<>>
    /\ step_result' = <<>>
    /\ UNCHANGED <<experimentVars, exploration_policy, selected_action,
                   observation_space, buffer, driverVars, call_results,
                   generationVars, trainingVars, lossVars, steps_issued,
                   steps_returned>>

\* action = self.agent.act_...(session, state_current)
step_act(action) ==
    /\ step_position > 0
    /\ next_call \in ActCalls
    /\ selected_action' = action
    /\ calls' = Append(calls, next_call)
    /\ step_position' = step_position + 1
    /\ UNCHANGED <<experimentVars, exploration_policy, operation,
                   observation_space, buffer, driverVars, call_results,
                   generationVars, trainingVars, lossVars, step_render,
                   environment_action, environment_result, step_result,
                   steps_issued, steps_returned>>

\* state_next, reward, episode_done = self.environment.step(action, session)
step_environment(outcome) ==
    /\ step_position > 0
    /\ next_call = "environment.step"
    /\ environment_action' = <<selected_action>>
    /\ environment_result' = <<outcome>>
    /\ steps_issued' = steps_issued + 1
    /\ calls' = Append(calls, next_call)
    /\ step_position' = step_position + 1
    /\ UNCHANGED <<experimentVars, exploration_policy, operation,
                   selected_action, observation_space, buffer, driverVars,
                   call_results, generationVars, trainingVars, lossVars,
                   step_render, step_result, steps_returned>>

\* self.environment.render(session)
step_environment_render ==
    /\ step_position > 0
    /\ next_call = "environment.render"
    /\ calls' = Append(calls, next_call)
    /\ step_position' = step_position + 1
    /\ UNCHANGED <<experimentVars, exploration_policy, operation,
                   selected_action, observation_space, buffer, driverVars,
                   call_results, generationVars, trainingVars, lossVars,
                   step_render, environment_action, environment_result,
                   step_result, steps_issued, steps_returned>>

\* return state_next, reward, episode_done
step_return ==
    /\ step_position > 0
    /\ next_call = "return"
    /\ step_result' = environment_result
    /\ steps_returned' = steps_returned + 1
    /\ step_position' = 0
    /\ UNCHANGED <<experimentVars, exploration_policy, operation, calls,
                   selected_action, observation_space, buffer, driverVars,
                   call_results, generationVars, trainingVars, lossVars,
                   step_render, environment_action, environment_result,
                   steps_issued>>

StepInit ==
    /\ InitExperiment
    /\ ~require_pre_train
    /\ pre_train_episodes = 0
    /\ exploration_policy = exploration_policy_new({"discrete"}, 0, MaxSchedule, 1)
    /\ selected_action = 0
    /\ operation = "none"
    /\ calls = <<>>
    /\ observation_space \in ObservationSpaces
    /\ buffer = <<>>
    /\ InitAgent
    /\ InitStep
    /\ batch_size = 1
    /\ driver = "none"
    /\ experiments = <<>>
    /\ running = 0
    /\ run_steps = 0
    /\ environment_steps = <<>>
    /\ model_stores = <<>>

StepNext ==
    \/ \E name \in ExperimentSteps, render \in BOOLEAN :
           step_begin(name, render)
    \/ \E action \in Actions(MaxActions) : step_act(action)
    \/ \E outcome \in StepOutcomes : step_environment(outcome)
    \/ step_environment_render
    \/ step_return

StepSpec == StepInit /\ [][StepNext]_vars

\* ------------------------------------------------- the benchmark drivers
\* The run functions of the three benchmark scripts.
Drivers == {"frozen_lake_tql", "cart_pole_dddql",
            "mountain_car_continuous_ppo"}

\* Experiments a driver defines: one per exploration policy variant, or the
\* single experiment of the PPO benchmark.
experiments_defined(name) ==
    IF name = "mountain_car_continuous_ppo" THEN 1 ELSE 3

\* Objects are numbered per class in the order of their construction.  A
\* driver constructs one environment and one inner_model, then one agent per
\* experiment around that model, each agent with an exploration policy of
\* its own, then one experiment per agent around that environment.
run(name) ==
    LET environment == 1
        inner_model == 1
    IN  [i \in 1..experiments_defined(name) |->
            [environment |-> environment,
             model |-> inner_model,
             agent |-> i,
             exploration_policy |-> i]]

\* Object numbers a driver can hand out per class.
ObjectIds == 1..3

\* The driver's run function up to its first run_experiment.
driver_run(name) ==
    /\ driver = "none"
    /\ driver' = name
    /\ experiments' = run(name)
    /\ UNCHANGED <<experimentVars, exploration_policy, operation, calls,
                   call_results, generationVars, trainingVars, lossVars,
                   stepVars,
                   selected_action, observation_space, buffer, running,
                   run_steps, environment_steps, model_stores>>

\* The next run_experiment call of the driver: the experiments run one
\* after the other, in the order of their definition.
run_experiment ==
    /\ driver # "none"
    /\ running <= Len(experiments)
    /\ running' = running + 1
    /\ run_steps' = 0
    /\ UNCHANGED <<experimentVars, exploration_policy, operation, calls,
                   call_results, generationVars, trainingVars, lossVars,
                   stepVars,
                   selected_action, observation_space, buffer, driver,
                   experiments, environment_steps, model_stores>>

\* A training step of the running experiment: Experiment._train_step steps
\* the experiment's environment, and the agent's complete_step_train stores
\* in the buffer of the agent's model.
run_train_step ==
    /\ running \in DOMAIN experiments
    /\ run_steps < MaxRunSteps
    /\ run_steps' = run_steps + 1
    /\ environment_steps' =
           [environment_steps EXCEPT
               ![experiments[running].environment] = @ + 1]
    /\ model_stores' =
           [model_stores EXCEPT
               ![experiments[running].model] =
                   @ + step_stores(complete_step_train(Agent))]
    /\ UNCHANGED <<experimentVars, exploration_policy, operation, calls,
                   call_results, generationVars, trainingVars, lossVars,
                   stepVars,
                   selected_action, observation_space, buffer, driver,
                   experiments, running>>

\* An inference step of the running experiment: the environment steps, and
\* complete_step_inference stores nothing.
run_inference_step ==
    /\ running \in DOMAIN experiments
    /\ run_steps < MaxRunSteps
    /\ run_steps' = run_steps + 1
    /\ environment_steps' =
           [environment_steps EXCEPT
               ![experiments[running].environment] = @ + 1]
    /\ model_stores' =
           [model_stores EXCEPT
               ![experiments[running].model] =
                   @ + step_stores(complete_step_inference(Agent))]
    /\ UNCHANGED <<experimentVars, exploration_policy, operation, calls,
                   call_results, generationVars, trainingVars, lossVars,
                   stepVars,
                   selected_action, observation_space, buffer, driver,
                   experiments, running>>

DriverInit ==
    /\ InitExperiment
    /\ ~require_pre_train
    /\ pre_train_episodes = 0
    /\ exploration_policy = exploration_policy_new({"discrete"}, 0, MaxSchedule, 1)
    /\ selected_action = 0
    /\ operation = "none"
    /\ calls = <<>>
    /\ observation_space = [type |-> "discrete", shape |-> 1]
    /\ buffer = <<>>
    /\ InitAgent
    /\ InitStep
    /\ batch_size = 1
    /\ driver = "none"
    /\ experiments = <<>>
    /\ running = 0
    /\ run_steps = 0
    /\ environment_steps = [id \in ObjectIds |-> 0]
    /\ model_stores = [id \in ObjectIds |-> 0]

DriverNext ==
    \/ \E name \in Drivers : driver_run(name)
    \/ run_experiment
    \/ run_train_step
    \/ run_inference_step

DriverSpec == DriverInit /\ [][DriverNext]_vars




\* ------------------------------------------------------------ properties
\* conduct is running or has just ended: its locals hold this call's values.
InConduct ==
    pc \in {"pre_train", "loop", "train", "validate", "test", "done",
            "raised"}

\* The loop phase is over.
AfterLoop == pc \in {"test", "done", "raised"}

\* C1: the number of training episodes run never exceeds
\* max_training_episodes, however the loop ends.
C1_never_exceeds_max ==
    training_episodes_counter <= max_training_episodes

C3_break_on_success ==
    [][/\ (validations_run' = validations_run + 1
              /\ validation_score' >= validation_success_threshold)
           => pc' = "test"
       /\ (validated /\ pc' # "idle")
           => /\ pc' \in {"test", "done", "raised"}
              /\ intervals_run' = intervals_run
              /\ validations_run' = validations_run
              /\ training_episodes_counter' = training_episodes_counter
              /\ interval_episodes_run' = interval_episodes_run]_vars

\* C3 witness: the test phase was reached by validation with budget left.
C3_witness ==
    /\ pc = "test"
    /\ validated
    /\ training_episodes_counter < max_training_episodes

\* C4: when no validation succeeds the loop is left on the counter
\* condition, and every one of the number_of_tests trials is still run.
C4_tests_after_exhaustion ==
    /\ (AfterLoop /\ ~validated)
           => ~(training_episodes_counter < max_training_episodes)
    /\ (pc \in {"done", "raised"} /\ ~validated)
           => Len(test_trials) = number_of_tests

\* C4 witness: a run that trained, never validated and ran all its tests.
C4_witness ==
    /\ pc = "done"
    /\ ~validated
    /\ validations_run >= 1
    /\ number_of_tests >= 2
    /\ Len(test_trials) = number_of_tests

\* C5: the final score is the arithmetic mean of the per-trial scores.
C5_final_score_is_mean ==
    pc = "done" =>
        final_score.num * number_of_tests = Sum(scores) * final_score.den

\* C6: the best score is the maximum of the per-trial scores.
C6_best_score_is_max ==
    pc = "done" =>
        /\ \E i \in DOMAIN scores : best_score = scores[i]
        /\ \A i \in DOMAIN scores : best_score >= scores[i]

\* C6 witness: two trials, the better one first.
C6_witness ==
    /\ pc = "done"
    /\ Len(scores) = 2
    /\ scores[1] > scores[2]
    /\ best_score = scores[1]

C8_setup_short_circuit ==
    pc = "setup_returned" =>
        /\ Len(setup_calls) >= 2
        /\ setup_calls[2][1] = "environment.setup"
        /\ \A i \in DOMAIN setup_calls :
               setup_calls[i][1] = "agent.setup" => i > 2
        /\ ~setup_calls[2][2] =>
               /\ \A i \in DOMAIN setup_calls :
                      setup_calls[i][1] # "agent.setup"
               /\ setup_result = "False"
        /\ setup_calls[2][2] =>
               /\ Len(setup_calls) = 3
               /\ setup_calls[3][1] = "agent.setup"
               /\ ~setup_calls[3][2] => setup_result = "False"

\* C8 witness: a setup whose environment failed.
C8_witness ==
    /\ pc = "setup_returned"
    /\ Len(setup_calls) = 2
    /\ ~setup_calls[2][2]
    /\ setup_result = "False"

\* C9: setup returns true when the environment and the agent both set up.
C9_setup_success_is_true ==
    (/\ pc = "setup_returned"
     /\ Len(setup_calls) = 3
     /\ setup_calls[2][2]
     /\ setup_calls[3][2]) => setup_result = "True"

\* C10: pre-training is entered exactly when the agent requires it, plays
\* pre_train_episodes warmup episodes, is over before the first training
\* interval starts, and updates neither the model nor the exploration
\* policy.
C10_pre_train ==
    /\ [][(pc = "idle" /\ pc' \notin {"idle", "setup_returned"})
             => (pc' = "pre_train" <=> require_pre_train)]_vars
    /\ [](pc = "pre_train" => require_pre_train)
    /\ []((InConduct /\ ~require_pre_train) => warmup_episodes_run = 0)
    /\ []((InConduct /\ require_pre_train /\ pc # "pre_train")
             => warmup_episodes_run = pre_train_episodes)
    /\ [](pc = "pre_train" =>
             /\ warmup_episodes_run <= pre_train_episodes
             /\ intervals_run = 0
             /\ interval_episodes_run = 0
             /\ validations_run = 0)
    /\ []((InConduct /\ intervals_run = 0 /\ interval_episodes_run = 0)
             => (model_updates = 0 /\ policy_updates = 0))

\* C10 witness: pre-training has played its episodes and filled the buffer,
\* and no training interval has started.
C10_witness ==
    /\ pc = "loop"
    /\ require_pre_train
    /\ pre_train_episodes >= 1
    /\ warmup_episodes_run = pre_train_episodes
    /\ buffer_stores >= 1
    /\ intervals_run = 0

\* C11: for an agent that requires pre-training, the warmup episodes played
\* before the first training interval are exactly the agent's
\* warmup_episodes.
C11_warmup_episodes_exact ==
    (InConduct /\ require_pre_train /\ pc # "pre_train")
        => warmup_episodes_run = warmup_episodes

\* C12: the mode of an experiment step decides the agent method that selects
\* the action: act_train in a training step, the warmup method in a
\* pre-train step, act_inference in an inference step.
C12_mode_dictates_selection ==
    /\ operation = "_train_step" => calls[1] = "agent.act_train"
    /\ operation = "_pre_train_step"
           => calls[1] \in {"agent.act_warmup", "agent.act_pre_train"}
    /\ operation = "_inference_step" => calls[1] = "agent.act_inference"

\* Model updates and buffer stores made by the training steps so far.
train_steps_taken ==
    training_steps_counter + (IF pc = "train" THEN interval_steps ELSE 0)

sentinel(space) ==
    IF space.type = "discrete" THEN discrete_observation(0)
    ELSE zeros(space.shape)

\* C14: no transition in the buffer has None as its next observation, and a
\* transition stored by complete_step_warmup or complete_step_train for a
\* None next observation (its last_step flag) carries the sentinel of the
\* observation space.
C14_sentinel_substitution ==
    \A i \in DOMAIN buffer :
        /\ buffer[i].agent_observation_next # None
        /\ buffer[i].last_step
               => buffer[i].agent_observation_next = sentinel(observation_space)

C14_witness ==
    /\ observation_space.type = "continuous"
    /\ observation_space.shape = MaxShape
    /\ operation = "complete_step_train"
    /\ Len(buffer) = MaxBuffer
    /\ buffer[1].last_step
    /\ buffer[1].agent_observation_next = zeros(MaxShape)
    /\ buffer[MaxBuffer].last_step
    /\ buffer[MaxBuffer].agent_observation_current # zeros(MaxShape)

\* Training episodes completed so far in a run.
train_episodes_completed ==
    training_episodes_counter
        + (IF pc = "train" THEN interval_episodes_run ELSE 0)

\* C15: the exploration policy is updated once per completed training
\* episode and by nothing else: at every point of a run the update calls
\* are as many as the completed training episodes, whatever warmup and
\* inference episodes were played.
C15_one_update_per_training_episode ==
    InConduct => policy_updates = train_episodes_completed

C15_witness ==
    /\ pc = "done"
    /\ warmup_episodes_run > 0
    /\ validations_run > 1
    /\ Len(test_trials) > 0
    /\ policy_updates = MaxTrainingEpisodes

C17_schedule_within_bounds ==
    exploration_policy.initialized =>
        /\ exploration_policy.schedule_min <= exploration_policy.schedule
        /\ exploration_policy.schedule <= exploration_policy.schedule_max

\* An update that would have gone below the minimum has been made.
C17_witness ==
    /\ exploration_policy.initialized
    /\ exploration_policy.updates = 1
    /\ exploration_policy.schedule_max - exploration_policy.schedule_decay
           < exploration_policy.schedule_min
    /\ exploration_policy.schedule = exploration_policy.schedule_min

\* C18: an update never raises the schedule and leaves it at the minimum
\* once it is there; as soon as the updates made since initialize cover the
\* distance from maximum to minimum, the schedule is the minimum.
C18_schedule_decays_to_minimum ==
    /\ [][exploration_policy'.updates > exploration_policy.updates =>
            /\ exploration_policy'.schedule <= exploration_policy.schedule
            /\ exploration_policy.schedule = exploration_policy.schedule_min
                   => exploration_policy'.schedule
                          = exploration_policy.schedule_min
         ]_vars
    /\ []((/\ exploration_policy.initialized
           /\ exploration_policy.updates * exploration_policy.schedule_decay
                  >= exploration_policy.schedule_max
                         - exploration_policy.schedule_min)
              => exploration_policy.schedule = exploration_policy.schedule_min)

\* The schedule went all the way down in single steps and was updated once
\* more.
C18_witness ==
    /\ exploration_policy.schedule_max = MaxSchedule
    /\ exploration_policy.schedule_min = 0
    /\ exploration_policy.schedule_decay = 1
    /\ exploration_policy.updates = MaxSchedule + 1
    /\ exploration_policy.schedule = 0

\* C19: act_train, which selects through ExplorationPolicy.act, leaves the
\* policy as it was, and the schedule changes in no call other than
\* initialize and the update of complete_episode_train.
C19_act_keeps_schedule ==
    /\ [][operation' = "act_train"
            => exploration_policy' = exploration_policy]_vars
    /\ [][exploration_policy'.schedule # exploration_policy.schedule
            => operation' \in {"initialize", "complete_episode_train"}]_vars

\* An exploring selection was made with room left for the schedule to decay.
C19_witness ==
    /\ operation = "act_train"
    /\ exploration_policy.schedule > exploration_policy.schedule_min
    /\ exploration_policy.updates > 0
    /\ selected_action = 1

\* C20: no two experiments a driver defines share an environment or a
\* model, so the steps of one run are not counted on, and its transitions
\* not stored in, an object another run uses.
C20_experiments_share_nothing ==
    \A i \in DOMAIN experiments : \A j \in DOMAIN experiments :
        i # j =>
            /\ experiments[i].environment # experiments[j].environment
            /\ experiments[i].model # experiments[j].model
            /\ running = i =>
                   /\ environment_steps[experiments[j].environment] = 0
                   /\ model_stores[experiments[j].model] = 0

C22_conduct_runs_to_completion ==
    InConduct =>
        /\ intervals_run <= max_training_episodes
        /\ Len(scores) <= number_of_tests
        /\ pc # "raised"

C27_validation_follows_each_interval ==
    InConduct =>
        /\ intervals_run
               = validations_run + (IF pc = "validate" THEN 1 ELSE 0)
        /\ test_trials # <<>> =>
               (pc \in {"test", "done"} /\ validations_run = intervals_run)

C27_witness ==
    /\ pc = "test"
    /\ Len(test_trials) = 1
    /\ validations_run = MaxTrainingEpisodes
    /\ intervals_run = MaxTrainingEpisodes
    /\ validated

\* The last operation called this collaborator.
called(name) == \E i \in DOMAIN calls : calls[i] = name

\* C29: the three action methods differ exactly so: act_warmup returns the
\* interface's random action and calls neither the model nor the policy,
\* act_train asks the model once for the best action and all action values
\* and returns what the exploration policy selects, act_inference returns the
\* model's best action and does not call the policy.
C29_act_methods_differ ==
    /\ operation = "act_warmup" =>
           /\ calls = <<"interface.get_random_agent_action">>
           /\ selected_action = call_results[1]
    /\ operation = "act_train" =>
           /\ calls = <<"model.get_best_action_and_all_action_values",
                        "exploration_policy.act">>
           /\ selected_action = call_results[2]
    /\ operation = "act_inference" =>
           /\ calls = <<"model.get_best_action">>
           /\ selected_action = call_results[1]

\* act_train has returned the policy's selection, which is not the best
\* action the model gave.
C29_witness ==
    /\ operation = "act_train"
    /\ Len(call_results) = 2
    /\ selected_action = call_results[2]
    /\ selected_action # call_results[1]

\* C30: the agent's generation succeeds exactly when the policy's and the
\* model's both do; the policy is generated first, and when it fails the
\* model is not generated and the result is False.
C30_generation_needs_both ==
    agent_generate_result # "unset" =>
        /\ agent_generate_result = "True" <=>
               /\ exploration_policy.generated = "True"
               /\ model_generate_result = "True"
        /\ exploration_policy.generated # "unset"
        /\ operation = "_generate" => calls[1] = "exploration_policy.generate"
        /\ exploration_policy.generated = "False" =>
               /\ model_generate_result = "unset"
               /\ agent_generate_result = "False"
               /\ operation = "_generate" =>
                      calls = <<"exploration_policy.generate">>

\* The policy does not support the action space: the generation has
\* returned False and the model was left alone.
C30_witness ==
    /\ operation = "_generate"
    /\ exploration_policy.generated = "False"
    /\ agent_generate_result = "False"
    /\ ~called("model.generate")

\* C23: a complete_step_train that asks for batch_size transitions of a
\* buffer holding fewer ends in BufferUnderflow at the draw: the model is
\* not updated, and a model update always has a batch of batch_size.
C23_underflow_is_fatal ==
    /\ agent_error = "BufferUnderflow" <=>
           (operation = "complete_step_train" /\ Len(buffer) < batch_size)
    /\ agent_error = "BufferUnderflow" =>
           /\ calls = <<"model.buffer.store", "model.buffer.get">>
           /\ batch = {}
           /\ current_loss = <<>>
    /\ called("model.update") =>
           /\ Cardinality(batch) = batch_size
           /\ Len(current_absolute_errors) = batch_size

\* A training step has come with one transition held and two asked for.
C23_witness ==
    /\ agent_error = "BufferUnderflow"
    /\ operation = "complete_step_train"
    /\ Len(buffer) = MaxBatchSize - 1
    /\ batch_size = MaxBatchSize
    /\ ~called("model.update")

\* C28: a complete_step_train that returns has stored the transition, then
\* drawn a batch of batch_size of the buffer with that transition in it,
\* then updated the model with the batch, kept the loss and the errors, and
\* given these errors to buffer.update.
C28_train_step_order ==
    (operation = "complete_step_train" /\ agent_error = "none") =>
        /\ calls = <<"model.buffer.store", "model.buffer.get", "model.update",
                     "model.buffer.update", "summary_writer.add_summary">>
        /\ batch \subseteq 1..Len(buffer)
        /\ Cardinality(batch) = batch_size
        /\ Len(buffer) = batch_size => Len(buffer) \in batch
        /\ current_loss # <<>>
        /\ Len(current_absolute_errors) = Cardinality(batch)
        /\ buffer_update_argument = current_absolute_errors

\* The batch of a training step holds the transition the step stored, and
\* an earlier one.
C28_witness ==
    /\ operation = "complete_step_train"
    /\ agent_error = "none"
    /\ Len(buffer) = MaxBuffer
    /\ batch = {1, MaxBuffer}
    /\ buffer_update_argument = <<1, 1>>

\* The operations C24 names: the action methods, the episode completions and
\* what an inference interval calls.
FrameOperations ==
    {"act_warmup", "act_train", "act_inference", "complete_step_inference",
     "complete_episode_warmup", "complete_episode_train",
     "complete_episode_inference", "_inference_step"}

\* C24, as stated: the buffer is written by complete_step_warmup and
\* complete_step_train only, and every act_*, every complete_episode_* and
\* the inference steps leave the buffer, the model and the exploration
\* schedule as they were.
C24_frame_as_stated ==
    [][/\ buffer' # buffer =>
              operation' \in {"complete_step_warmup", "complete_step_train"}
       /\ operation' \in FrameOperations =>
              /\ buffer' = buffer
              /\ UNCHANGED lossVars
              /\ exploration_policy'.schedule = exploration_policy.schedule]_vars

\* C24, amended: the same, but complete_episode_train advances the
\* exploration schedule; it leaves the buffer and the model as they were.
C24_frame_but_for_episode_train ==
    [][/\ buffer' # buffer =>
              operation' \in {"complete_step_warmup", "complete_step_train"}
       /\ operation' \in FrameOperations =>
              /\ buffer' = buffer
              /\ UNCHANGED lossVars
              /\ \A i \in DOMAIN calls' :
                     calls'[i] \notin {"model.buffer.store", "model.update"}
       /\ operation' \in FrameOperations \ {"complete_episode_train"} =>
              exploration_policy'.schedule = exploration_policy.schedule]_vars

\* An inference step has completed on an agent that holds transitions, a
\* loss and a decayed schedule.
C24_witness ==
    /\ operation = "complete_step_inference"
    /\ Len(buffer) = MaxBuffer
    /\ current_loss # <<>>
    /\ exploration_policy.initialized
    /\ exploration_policy.schedule < MaxSchedule

\* C35: generate records the action space type and shape it is given before
\* it looks the type up, so a policy whose generate has failed holds the
\* type and the shape of the rejected call and no longer those of its
\* construction; a policy that supports no type fails whatever the type.
C35_failed_generate_records_space ==
    /\ exploration_policy.generated = "False" =>
           /\ exploration_policy.agent_action_space_type =
                  generate_arguments.agent_action_space_type
           /\ exploration_policy.agent_action_space_shape =
                  generate_arguments.agent_action_space_shape
           /\ generate_arguments.agent_action_space_type \in SpaceTypes
           /\ generate_arguments.agent_action_space_type \notin
                  exploration_policy.supported_action_space_types
           /\ exploration_policy.agent_action_space_type # "None"
           /\ exploration_policy.define_calls = 0
    /\ (/\ exploration_policy.supported_action_space_types = {}
        /\ exploration_policy.generated # "unset") =>
           exploration_policy.generated = "False"

\* A policy that supports nothing has rejected a discrete space of the
\* largest shape and holds that space.
C35_witness ==
    /\ operation = "_generate"
    /\ exploration_policy.supported_action_space_types = {}
    /\ exploration_policy.generated = "False"
    /\ exploration_policy.agent_action_space_type = "discrete"
    /\ exploration_policy.agent_action_space_shape = MaxActions

\* C34: the transition complete_step_warmup and complete_step_train store
\* has its last step flag set exactly when the next observation they were
\* given was None; a next observation that is not None is stored as it came
\* with the flag unset, and the observation, the action and the reward are
\* stored as they came.
C34_stored_as_given ==
    (operation \in {"complete_step_warmup", "complete_step_train"}) =>
        /\ buffer # <<>>
        /\ LET kept == buffer[Len(buffer)]
           IN  /\ kept.last_step <=>
                      step_arguments.agent_observation_next = None
               /\ step_arguments.agent_observation_next # None =>
                      /\ kept.agent_observation_next =
                             step_arguments.agent_observation_next
                      /\ ~kept.last_step
               /\ kept.agent_observation_current =
                      step_arguments.agent_observation_current
               /\ kept.agent_action = step_arguments.agent_action
               /\ kept.reward = step_arguments.reward

\* A warmup step has been given the observation 0 of a discrete space as
\* its next observation: it is stored as it came, not as a last step.
C34_witness ==
    /\ operation = "complete_step_warmup"
    /\ observation_space.type = "discrete"
    /\ step_arguments.agent_observation_next = discrete_observation(0)
    /\ buffer[Len(buffer)].agent_observation_next = discrete_observation(0)
    /\ ~buffer[Len(buffer)].last_step
    /\ buffer[Len(buffer)].reward = 1

\* Places of a call in what the step in progress, or the last step, called.
places(name) == {i \in DOMAIN calls : calls[i] = name}

\* C33: an experiment step asks the agent for one action, then steps the
\* environment once with that action, renders after that and only when its
\* render flag is set, and returns what the environment's step returned;
\* the environment is never stepped while an earlier step has not returned.
C33_one_action_one_step ==
    operation \in ExperimentSteps =>
        /\ \A i \in DOMAIN calls :
               /\ calls[i] \in ActCalls <=> i = 1
               /\ calls[i] = "environment.step" <=> i = 2
               /\ calls[i] = "environment.render" <=> (i = 3 /\ step_render)
        /\ Len(calls) <= 3
        /\ places("environment.step") # {} =>
               /\ environment_action = <<selected_action>>
               /\ Len(environment_result) = 1
        /\ steps_issued = steps_returned
                          + (IF step_position > 0
                                /\ places("environment.step") # {}
                             THEN 1 ELSE 0)
        /\ step_position = 0 =>
               /\ Len(calls) = (IF step_render THEN 3 ELSE 2)
               /\ step_result = environment_result
               /\ Len(step_result) = 1
               /\ DOMAIN step_result[1] =
                      {"state_next", "reward", "episode_done"}

\* A rendered training step has returned the completion flag of the
\* environment's second step, taken with the agent's action.
C33_witness ==
    /\ operation = "_train_step"
    /\ step_position = 0
    /\ step_render
    /\ calls = <<train_step_act, "environment.step", "environment.render">>
    /\ steps_issued = MaxRunSteps
    /\ steps_returned = MaxRunSteps
    /\ environment_action = <<MaxActions - 1>>
    /\ step_result[1].episode_done

\* C31: every conduct, a repeated one too, initializes the environment, then
\* the agent, before any step of pre-training, training, validation or test
\* is taken; the agent's initialize leaves no loss and no absolute errors,
\* initializes the model and the exploration policy, and the schedule
\* restarts at its maximum.
C31_conduct_initializes_first ==
    /\ [](InConduct =>
             /\ conduct_calls = <<"environment.initialize", "agent.initialize",
                                  "model.initialize",
                                  "exploration_policy.initialize">>
             /\ exploration_policy.initialized
             /\ model_updates = 0 =>
                    (current_loss = <<>> /\ current_absolute_errors = <<>>)
             /\ policy_updates = 0 =>
                    exploration_policy.schedule
                        = exploration_policy.schedule_max)
    /\ [](~InConduct =>
             /\ conduct_calls = <<>>
             /\ warmup_episodes_run = 0
             /\ intervals_run = 0
             /\ validations_run = 0
             /\ test_trials = <<>>)
    /\ [][(~InConduct /\ InConduct') =>
             /\ Len(conduct_calls') = 4
             /\ current_loss' = <<>>
             /\ current_absolute_errors' = <<>>
             /\ exploration_policy'.schedule = exploration_policy.schedule_max
             /\ warmup_episodes_run' = 0
             /\ interval_episodes_run' = 0
             /\ intervals_run' = 0
             /\ validations_run' = 0
             /\ test_trials' = <<>>]_vars

\* A conduct has initialized and taken no step yet.
C31_witness ==
    /\ pc = "loop"
    /\ intervals_run = 0
    /\ conduct_calls[1] = "environment.initialize"
    /\ conduct_calls[2] = "agent.initialize"
    /\ exploration_policy.initialized
    /\ exploration_policy.schedule = MaxSchedule
    /\ current_loss = <<>>

\* The instance is between two conducts, and the agent holds the loss and
\* the decayed schedule of the first.
C31_before_repeated_conduct ==
    /\ pc = "idle"
    /\ current_loss # <<>>
    /\ exploration_policy.initialized
    /\ exploration_policy.schedule < MaxSchedule

\* C32: the policy's initialize is an idempotent reset: whatever updates the
\* policy has gone through, initialize puts the schedule at its configured
\* maximum, and a second initialize changes nothing the first has left.
C32_initialize_is_idempotent_reset ==
    /\ exploration_policy.generated = "True" =>
           LET once == policy_initialize(exploration_policy)
           IN  /\ once.initialized
               /\ once.schedule = exploration_policy.schedule_max
               /\ once.schedule_max = exploration_policy.schedule_max
               /\ policy_initialize(once) = once
    /\ operation = "initialize" =>
           /\ exploration_policy.schedule = exploration_policy.schedule_max
           /\ policy_initialize(exploration_policy) = exploration_policy

\* A policy has been updated twice since its initialize and its schedule is
\* two below its maximum: initialize puts it back there.
C32_witness ==
    /\ exploration_policy.initialized
    /\ exploration_policy.updates = 2
    /\ exploration_policy.schedule_max = MaxSchedule
    /\ exploration_policy.schedule = MaxSchedule - 2
    /\ policy_initialize(exploration_policy).schedule = MaxSchedule
    /\ policy_initialize(exploration_policy).updates = 0

====
